---- MODULE Spec2Model ----
(***************************************************************************)
(* A model of dyns (src/src/main.rs): the dynamic DNS updater.  The        *)
(* process is one sequential thread; its state is main's locals (cfg, ip,  *)
(* the position in the zone/record loops, the record id and the response   *)
(* body of the lookup in progress) and its position in main.  The outside  *)
(* world (the IP-echo service, the DNS provider, the clock) answers every  *)
(* request nondeterministically.  History variables record the requests    *)
(* sent and the log entries written.                                       *)
(***************************************************************************)
EXTENDS Integers, Sequences, FiniteSets, TLC

\* ------------------------------------------------------------------ bounds
\* Number of sleep/poll cycles explored.
MaxPolls == 2
\* Longest IP-echo response body, in characters.
MaxBodyLen == 2
\* Longest result list of a record-list response.
MaxResults == 2

\* ------------------------------------------------------- program constants
\* Duration::from_secs(5*60)
SleepSecs == 300

\* ------------------------------------------------------------------ values
\* Characters of an IP-echo body: one digit and two kinds of whitespace.
Chars == {"1", " ", "\n"}

Whitespace == {" ", "\n"}

Bodies == UNION {[1..n -> Chars] : n \in 0..MaxBodyLen}

\* The value of `ip` before line 132 has run (no valid body holds "?").
NoIp == <<"?">>

\* Record names as the provider and the configuration spell them.
RespNames == {"a", "A"}

RecordIds == {"i1", "i2"}

RecordInfos == [id : RecordIds, name : RespNames]

ResultLists == UNION {[1..n -> RecordInfos] : n \in 0..MaxResults}

ErrorLists == {<<>>, <<"bad auth">>}

\* What client.get(ipify) can come back with: a transport failure, a body
\* that is not text, or a text body.
NoEcho == [kind |-> "none", body |-> <<>>]

IpResponses ==
    {[kind |-> "neterr", body |-> <<>>], [kind |-> "badtext", body |-> <<>>]}
        \cup {[kind |-> "text", body |-> b] : b \in Bodies}

\* What the record-list GET can come back with: a transport failure, a body
\* that does not deserialize as CloudflareResponse, or an envelope.
NoBody == [kind |-> "none", success |-> FALSE, errors |-> <<>>, result |-> <<>>]

ListResponses ==
    {[kind |-> "neterr", success |-> FALSE, errors |-> <<>>, result |-> <<>>],
     [kind |-> "badjson", success |-> FALSE, errors |-> <<>>, result |-> <<>>]}
        \cup [kind : {"json"}, success : BOOLEAN, errors : ErrorLists,
              result : ResultLists]

\* What the PATCH can come back with: a transport failure, or any HTTP
\* response (whose envelope may say success or not).
NoPatchResp == [kind |-> "none", status |-> 0, success |-> FALSE]

\* The HTTP statuses a PATCH response is explored with.
Statuses == {200, 403}

PatchResponses ==
    {[kind |-> "neterr", status |-> 0, success |-> FALSE]}
        \cup [kind : {"http"}, status : Statuses, success : BOOLEAN]

\* ----------------------------------------------------------- configuration
Rec(n, p) == [name |-> n, proxy |-> p]

Zone(id, n, rs) == [zone_id |-> id, name |-> n, records |-> rs]

\* The configurations explored: no zone; one zone with one record; two
\* zones with two records each; zones without records.
Configs ==
    { [zones |-> <<>>],
      [zones |-> <<Zone("zid1", "z1.com", <<Rec("a", TRUE)>>)>>],
      [zones |-> <<Zone("zid1", "z1.com", <<Rec("a", TRUE), Rec("A", FALSE)>>),
                   Zone("zid2", "z2.com", <<Rec("A", FALSE), Rec("a", TRUE)>>)>>],
      [zones |-> <<Zone("zid1", "z1.com", <<>>)>>],
      [zones |-> <<Zone("zid1", "z1.com", <<>>),
                   Zone("zid2", "z2.com", <<Rec("a", TRUE)>>)>>] }

\* The (zone, record) positions of a configuration.
Positions(c) ==
    UNION {{<<z, r>> : r \in 1..Len(c.zones[z].records)} : z \in 1..Len(c.zones)}

\* ----------------------------------------------------------------- results
Ok(v) == [ok |-> TRUE, val |-> v, err |-> [kind |-> "none", detail |-> <<>>]]

Err(k, d) == [ok |-> FALSE, val |-> <<>>, err |-> [kind |-> k, detail |-> d]]

NoResult == Err("none", <<>>)

\* ---------------------------------------------------------- pure functions
RECURSIVE TrimStart(_)
\* str::trim_start: drop the leading whitespace.
TrimStart(s) ==
    IF s # <<>> /\ Head(s) \in Whitespace THEN TrimStart(Tail(s)) ELSE s

RECURSIVE TrimEnd(_)
\* str::trim_end: drop the trailing whitespace.
TrimEnd(s) ==
    IF s # <<>> /\ s[Len(s)] \in Whitespace
    THEN TrimEnd(SubSeq(s, 1, Len(s) - 1))
    ELSE s

\* A trim of the end only.
TrimEndOnly(s) == TrimEnd(s)

\* str::trim (line 93).
Trim(s) == TrimEnd(TrimStart(s))

\* A resolver that rejects a body without an address in it.
get_current_ip_nonempty(resp) ==
    IF resp.kind = "neterr"
    THEN Err("Network", <<"Failed to get new IP address">>)
    ELSE IF resp.kind = "badtext" \/ Trim(resp.body) = <<>>
         THEN Err("Response", <<>>)
         ELSE Ok(Trim(resp.body))

\* get_current_ip (lines 90-96) on the response the service gave.
get_current_ip(resp) ==
    IF resp.kind = "neterr"
    THEN Err("Network", <<"Failed to get new IP address">>)
    ELSE IF resp.kind = "badtext"
         THEN Err("Response", <<>>)
         ELSE Ok(Trim(resp.body))

Lower(n) == IF n = "A" THEN "a" ELSE n

\* A comparison that ignores case.
NameMatchesIgnoreCase(info_name, name) == Lower(info_name) = Lower(name)

\* The closure of line 65: info.name == name.
NameMatches(info_name, name) == info_name = name

\* A test that never looks at the success flag.
EnvelopeOkAlways(resp) == TRUE

\* The test of line 61, negated: the envelope reports success.
EnvelopeOk(resp) == resp.success

RECURSIVE FindRecord(_, _)
\* Lines 64-67: the id of the first entry named `name`, or the error.
FindRecord(result, name) ==
    IF result = <<>>
    THEN Err("NotFound", <<name>>)
    ELSE IF NameMatches(Head(result).name, name)
         THEN Ok(Head(result).id)
         ELSE FindRecord(Tail(result), name)

\* get_dns_record_id (lines 54-69) on a response that deserialized or failed
\* in transport (a body that does not deserialize panics: see GetDnsRecordId).
get_dns_record_id(resp, name) ==
    IF resp.kind = "neterr"
    THEN Err("Network", <<>>)
    ELSE IF ~EnvelopeOk(resp)
         THEN Err("Provider", resp.errors)
         ELSE FindRecord(resp.result, name)

\* A test that also fails on an envelope without success.
PatchFailedOnEnvelope(resp) == resp.kind = "neterr" \/ ~resp.success

\* A test that lets a transport failure pass.
PatchFailedNever(resp) == FALSE

\* The ? of line 84: only a transport failure of client.send is an error.
PatchFailed(resp) == resp.kind = "neterr"

\* UpdateRecordBody (lines 81-84).
UpdateRecordBody(ip_arg, record) == [content |-> ip_arg, proxy |-> record.proxy]

\* A comparison that always sees a change.
IpChangedAlways(new, old) == TRUE

\* The comparison of line 145.
IpChanged(new, old) == new # old

\* An assignment that keeps the old value.
StoredIpStale(new, old) == old

\* The assignment of line 146.
StoredIp(new, old) == new

\* An iterator that steps over every other element.
NextIndexSkip(i) == i + 2

\* The advance of the iterators of lines 134 and 135.
NextIndex(i) == i + 1

\* The error-level entry of line 137: the format string names a record and
\* a zone, and is given zone.name and record.name in that order.
ErrorEntry(zone, record, e) ==
    [record |-> zone.name, zone |-> record.name, error |-> e]

\* ------------------------------------------------------------------- state
VARIABLES
    cfg,        \* the parsed configuration (line 123)
    pc,         \* the position in main
    ip,         \* main's `ip` (lines 132, 146): the stored IP
    zi,         \* the index of `zone` in the loop of line 134
    ri,         \* the index of `record` in the loop of line 135
    body,       \* get_dns_record_id's `body` (line 60), while it is in scope
    record_id,  \* update_record's `record_id` (line 74)
    echo,       \* history: the IP-echo response just received
    resolved,   \* history: the result of the last get_current_ip call
    nip,        \* history: the number of IP-echo requests sent so far
    latest,     \* history: the value of the last successful get_current_ip
    passLog,    \* history: the provider requests sent since the pass began
    nreq,       \* history: the number of provider requests sent so far
    slept,      \* history: the number of sleeps so far
    lastEvent,  \* history: the last interaction with the outside world
    lastPatch,  \* history: per configured record, its most recent PATCH
    patchResp,  \* history: the response to the PATCH just sent
    errlog,     \* the error-level entries written with log::error!
    info,       \* the last info-level entry written with log::info!
    exit,       \* how the process ended, "running" until it does
    exitErr,    \* the error main returned
    exitAt      \* the position at which the process ended

vars == <<cfg, pc, ip, zi, ri, body, record_id, echo, resolved, nip, latest,
          passLog, nreq, slept, lastEvent, lastPatch, patchResp, errlog, info,
          exit, exitErr, exitAt>>

NoError == [kind |-> "none", detail |-> <<>>]

NoInfo == [msg |-> "none", name |-> "", ip |-> NoIp]

NoPatch == [content |-> NoIp, done |-> FALSE]

Event(k, secs) == [kind |-> k, secs |-> secs]

CurZone == cfg.zones[zi]

CurRecord == CurZone.records[ri]

\* The state after Cli::parse and the reading of the configuration file
\* (lines 120-123), before the test of line 125.
Init ==
    /\ cfg \in Configs
    /\ pc = "check_zones"
    /\ ip = NoIp
    /\ zi = 1
    /\ ri = 1
    /\ body = NoBody
    /\ record_id = ""
    /\ echo = NoEcho
    /\ resolved = NoResult
    /\ nip = 0
    /\ latest = NoIp
    /\ passLog = <<>>
    /\ nreq = 0
    /\ slept = 0
    /\ lastEvent = Event("none", 0)
    /\ lastPatch = [p \in Positions(cfg) |-> NoPatch]
    /\ patchResp = NoPatchResp
    /\ errlog = <<>>
    /\ info = NoInfo
    /\ exit = "running"
    /\ exitErr = NoError
    /\ exitAt = "none"

\* A propagation that swallows the error and tries the same step again.
ReturnErrRetry(e) ==
    /\ pc' = pc
    /\ UNCHANGED <<exit, exitErr, exitAt>>

\* main returns Err(e): the process ends with a failure status.
ReturnErr(e) ==
    /\ pc' = "exited"
    /\ exit' = "failure"
    /\ exitErr' = e
    /\ exitAt' = pc

\* A handler that logs the error and goes on with the loop.
UpdateFailedContinues(e) ==
    /\ errlog' = Append(errlog, ErrorEntry(CurZone, CurRecord, e))
    /\ pc' = "for_record"
    /\ UNCHANGED <<exit, exitErr, exitAt>>

\* Lines 136-139: update_record returned Err(e).
UpdateFailed(e) ==
    /\ errlog' = Append(errlog, ErrorEntry(CurZone, CurRecord, e))
    /\ ReturnErr(e)

\* A startup without the test of the zone list.
CheckZonesSkipped ==
    /\ pc = "check_zones"
    /\ pc' = "startup"
    /\ UNCHANGED <<cfg, ip, zi, ri, body, record_id, echo, resolved, nip, latest,
                   passLog, nreq, slept, lastEvent, lastPatch, patchResp, errlog,
                   info, exit, exitErr, exitAt>>

\* Lines 125-127.
CheckZones ==
    /\ pc = "check_zones"
    /\ IF Len(cfg.zones) = 0
       THEN ReturnErr([kind |-> "Config", detail |-> <<"No zones specified">>])
       ELSE /\ pc' = "startup"
            /\ UNCHANGED <<exit, exitErr, exitAt>>
    /\ UNCHANGED <<cfg, ip, zi, ri, body, record_id, echo, resolved, nip, latest,
                   passLog, nreq, slept, lastEvent, lastPatch, patchResp, errlog,
                   info>>

\* Lines 131-132: the startup resolution.
Startup ==
    /\ pc = "startup"
    /\ \E resp \in IpResponses :
          LET r == get_current_ip(resp) IN
          /\ echo' = resp
          /\ resolved' = r
          /\ nip' = nip + 1
          /\ lastEvent' = Event("ipget", 0)
          /\ IF r.ok
             THEN /\ ip' = r.val
                  /\ latest' = r.val
                  /\ zi' = 1
                  /\ pc' = "for_zone"
                  /\ UNCHANGED <<exit, exitErr, exitAt>>
             ELSE /\ ReturnErr(r.err)
                  /\ UNCHANGED <<ip, latest, zi>>
    /\ UNCHANGED <<cfg, ri, body, record_id, passLog, nreq, slept, lastPatch,
                   patchResp, errlog, info>>

\* A loop that returns Ok(()) from main once the pass is over.
ForZoneReturnsOk ==
    /\ pc = "for_zone"
    /\ IF zi <= Len(cfg.zones)
       THEN /\ ri' = 1
            /\ pc' = "for_record"
            /\ UNCHANGED <<exit, exitAt>>
       ELSE /\ pc' = "exited"
            /\ exit' = "success"
            /\ exitAt' = pc
            /\ UNCHANGED ri
    /\ echo' = NoEcho
    /\ UNCHANGED <<cfg, ip, zi, body, record_id, resolved, nip, latest, passLog,
                   nreq, slept, lastEvent, lastPatch, patchResp, errlog, info,
                   exitErr>>

\* A loop that updates the first zone only.
ForZoneSingle ==
    /\ pc = "for_zone"
    /\ IF zi <= Len(cfg.zones) /\ zi <= 1
       THEN /\ ri' = 1
            /\ pc' = "for_record"
       ELSE /\ pc' = "sleep"
            /\ UNCHANGED ri
    /\ echo' = NoEcho
    /\ UNCHANGED <<cfg, ip, zi, body, record_id, resolved, nip, latest, passLog,
                   nreq, slept, lastEvent, lastPatch, patchResp, errlog, info,
                   exit, exitErr, exitAt>>

\* Line 134: the zone iterator yields the next zone, or the pass is over.
ForZone ==
    /\ pc = "for_zone"
    /\ IF zi <= Len(cfg.zones)
       THEN /\ ri' = 1
            /\ pc' = "for_record"
       ELSE /\ pc' = "sleep"
            /\ UNCHANGED ri
    /\ echo' = NoEcho
    /\ UNCHANGED <<cfg, ip, zi, body, record_id, resolved, nip, latest, passLog,
                   nreq, slept, lastEvent, lastPatch, patchResp, errlog, info,
                   exit, exitErr, exitAt>>

\* Line 135: the record iterator yields the next record, or the zone is over.
ForRecord ==
    /\ pc = "for_record"
    /\ IF ri <= Len(CurZone.records)
       THEN /\ pc' = "lookup"
            /\ UNCHANGED zi
       ELSE /\ zi' = NextIndex(zi)
            /\ pc' = "for_zone"
    /\ patchResp' = NoPatchResp
    /\ UNCHANGED <<cfg, ip, ri, body, record_id, echo, resolved, nip, latest,
                   passLog, nreq, slept, lastEvent, lastPatch, errlog, info, exit,
                   exitErr, exitAt>>

\* The record-list request of lines 55-59.
GetRequest ==
    [method |-> "GET", zone_id |-> CurZone.zone_id, record_id |-> "",
     content |-> NoIp, proxy |-> FALSE, pos |-> <<zi, ri>>]

\* The PATCH request of lines 75-84.
PatchRequest ==
    LET b == UpdateRecordBody(ip, CurRecord) IN
    [method |-> "PATCH", zone_id |-> CurZone.zone_id, record_id |-> record_id,
     content |-> b.content, proxy |-> b.proxy, pos |-> <<zi, ri>>]

\* The lookup of a process that holds no record id yet.
GetDnsRecordIdFresh ==
    /\ pc = "lookup"
    /\ record_id = ""
    /\ \E resp \in ListResponses :
          /\ body' = resp
          /\ passLog' = Append(passLog, GetRequest)
          /\ nreq' = nreq + 1
          /\ lastEvent' = Event("listget", 0)
          /\ IF resp.kind = "badjson"
             THEN \* line 60: expect() panics
                  /\ pc' = "exited"
                  /\ exit' = "panic"
                  /\ exitAt' = pc
                  /\ UNCHANGED <<record_id, errlog, exitErr>>
             ELSE LET r == get_dns_record_id(resp, CurRecord.name) IN
                  IF r.ok
                  THEN /\ record_id' = r.val
                       /\ pc' = "patch"
                       /\ UNCHANGED <<errlog, exit, exitErr, exitAt>>
                  ELSE /\ UpdateFailed(r.err)
                       /\ UNCHANGED record_id
    /\ UNCHANGED <<cfg, ip, zi, ri, echo, resolved, nip, latest, slept, lastPatch,
                   patchResp, info>>

\* A lookup that keeps the id it found first and asks the provider only
\* when it holds none.
GetDnsRecordIdCached ==
    \/ GetDnsRecordIdFresh
    \/ /\ pc = "lookup"
       /\ record_id # ""
       /\ pc' = "patch"
       /\ UNCHANGED <<cfg, ip, zi, ri, body, record_id, echo, resolved, nip,
                      latest, passLog, nreq, slept, lastEvent, lastPatch,
                      patchResp, errlog, info, exit, exitErr, exitAt>>

\* Line 74: update_record calls get_dns_record_id (lines 54-69); a failure
\* is handled by lines 136-139.
GetDnsRecordId ==
    /\ pc = "lookup"
    /\ \E resp \in ListResponses :
          /\ body' = resp
          /\ passLog' = Append(passLog, GetRequest)
          /\ nreq' = nreq + 1
          /\ lastEvent' = Event("listget", 0)
          /\ IF resp.kind = "badjson"
             THEN \* line 60: expect() panics
                  /\ pc' = "exited"
                  /\ exit' = "panic"
                  /\ exitAt' = pc
                  /\ UNCHANGED <<record_id, errlog, exitErr>>
             ELSE LET r == get_dns_record_id(resp, CurRecord.name) IN
                  IF r.ok
                  THEN /\ record_id' = r.val
                       /\ pc' = "patch"
                       /\ UNCHANGED <<errlog, exit, exitErr, exitAt>>
                  ELSE /\ UpdateFailed(r.err)
                       /\ UNCHANGED record_id
    /\ UNCHANGED <<cfg, ip, zi, ri, echo, resolved, nip, latest, slept, lastPatch,
                   patchResp, info>>

\* Lines 75-87: the PATCH, then the info entry; a transport failure is
\* handled by lines 136-139.
Patch ==
    /\ pc = "patch"
    /\ \E resp \in PatchResponses :
          /\ patchResp' = resp
          /\ passLog' = Append(passLog, PatchRequest)
          /\ nreq' = nreq + 1
          /\ lastEvent' = Event("patch", 0)
          /\ body' = NoBody
          /\ lastPatch' = [lastPatch EXCEPT ![<<zi, ri>>] =
                             [content |-> PatchRequest.content,
                              done |-> resp.kind # "neterr"]]
          /\ IF PatchFailed(resp)
             THEN /\ UpdateFailed([kind |-> "Network", detail |-> <<>>])
                  /\ UNCHANGED <<ri, info>>
             ELSE /\ info' = [msg |-> "updated", name |-> CurRecord.name, ip |-> ip]
                  /\ ri' = NextIndex(ri)
                  /\ pc' = "for_record"
                  /\ UNCHANGED <<errlog, exit, exitErr, exitAt>>
    /\ UNCHANGED <<cfg, ip, zi, record_id, echo, resolved, nip, latest, slept>>

\* Line 143.
Sleep ==
    /\ pc = "sleep"
    /\ slept < MaxPolls
    /\ slept' = slept + 1
    /\ lastEvent' = Event("sleep", SleepSecs)
    /\ pc' = "poll"
    /\ echo' = NoEcho
    /\ UNCHANGED <<cfg, ip, zi, ri, body, record_id, resolved, nip, latest,
                   passLog, nreq, lastPatch, patchResp, errlog, info, exit,
                   exitErr, exitAt>>

\* A poll that, finding no change, polls again without sleeping.
PollNoSleep ==
    /\ pc = "poll"
    /\ \E resp \in IpResponses :
          LET r == get_current_ip(resp) IN
          /\ echo' = resp
          /\ resolved' = r
          /\ nip' = nip + 1
          /\ lastEvent' = Event("ipget", 0)
          /\ IF ~r.ok
             THEN /\ ReturnErr(r.err)
                  /\ UNCHANGED <<ip, latest, zi, passLog, info>>
             ELSE /\ latest' = r.val
                  /\ UNCHANGED <<exit, exitErr, exitAt>>
                  /\ IF IpChanged(r.val, ip)
                     THEN /\ ip' = StoredIp(r.val, ip)
                          /\ zi' = 1
                          /\ passLog' = <<>>
                          /\ pc' = "for_zone"
                          /\ UNCHANGED info
                     ELSE /\ info' = [msg |-> "unchanged", name |-> "", ip |-> NoIp]
                          /\ pc' = "poll"
                          /\ UNCHANGED <<ip, zi, passLog>>
    /\ UNCHANGED <<cfg, ri, body, record_id, nreq, slept, lastPatch, patchResp,
                   errlog>>

\* Lines 144-149: the poll, the comparison and its two outcomes.
Poll ==
    /\ pc = "poll"
    /\ \E resp \in IpResponses :
          LET r == get_current_ip(resp) IN
          /\ echo' = resp
          /\ resolved' = r
          /\ nip' = nip + 1
          /\ lastEvent' = Event("ipget", 0)
          /\ IF ~r.ok
             THEN /\ ReturnErr(r.err)
                  /\ UNCHANGED <<ip, latest, zi, passLog, info>>
             ELSE /\ latest' = r.val
                  /\ UNCHANGED <<exit, exitErr, exitAt>>
                  /\ IF IpChanged(r.val, ip)
                     THEN /\ ip' = StoredIp(r.val, ip)
                          /\ zi' = 1
                          /\ passLog' = <<>>
                          /\ pc' = "for_zone"
                          /\ UNCHANGED info
                     ELSE /\ info' = [msg |-> "unchanged", name |-> "", ip |-> NoIp]
                          /\ pc' = "sleep"
                          /\ UNCHANGED <<ip, zi, passLog>>
    /\ UNCHANGED <<cfg, ri, body, record_id, nreq, slept, lastPatch, patchResp,
                   errlog>>

Next ==
    \/ CheckZones
    \/ Startup
    \/ ForZone
    \/ ForRecord
    \/ GetDnsRecordId
    \/ Patch
    \/ Sleep
    \/ Poll

Spec == Init /\ [][Next]_vars

\* ------------------------------------------------------------------ claims
\* The PATCH requests of the current pass for position p.
PatchesOf(p) ==
    {i \in 1..Len(passLog) : passLog[i].method = "PATCH" /\ passLog[i].pos = p}

\* The record-list requests of the current pass: one per update_record call.
Attempts == SelectSeq(passLog, LAMBDA q : q.method = "GET")

LexLess(p, q) == p[1] < q[1] \/ (p[1] = q[1] /\ p[2] < q[2])

\* The place of position p in configuration order.
Rank(p) == Cardinality({q \in Positions(cfg) : LexLess(q, p)}) + 1

\* Every configured record's most recent PATCH completed and carried v.
AllPatchedTo(v) ==
    \A p \in Positions(cfg) : lastPatch[p].done /\ lastPatch[p].content = v

\* The list response makes the lookup of `name` fail with an error.
ListFails(resp, name) ==
    \/ resp.kind = "neterr"
    \/ /\ resp.kind = "json"
       /\ \/ ~resp.success
          \/ \A i \in 1..Len(resp.result) : resp.result[i].name # name

\* C1: a poll in Waiting whose result equals the stored IP sends no provider
\* request, leaves the stored IP (and every record's last PATCH) unchanged
\* and goes back to sleeping.
C1_PollIdempotent ==
    [][(pc = "poll" /\ resolved'.ok /\ resolved'.val = ip)
          => /\ nreq' = nreq
             /\ passLog' = passLog
             /\ lastPatch' = lastPatch
             /\ ip' = ip
             /\ pc' = "sleep"]_vars

\* C1 witness: after two passes (startup, one change), a poll found the IP
\* unchanged and the loop is back at the sleep.
C1_Witness ==
    /\ pc = "sleep"
    /\ slept = 2
    /\ info.msg = "unchanged"
    /\ resolved.ok /\ resolved.val = ip
    /\ Positions(cfg) # {}
    /\ nreq = 4 * Cardinality(Positions(cfg))

\* C2: in every pass the updates attempted are the configured records in
\* configuration order (zones in order, records in order inside a zone),
\* none skipped or repeated; an update starts only after the update before
\* it returned success; a completed pass attempted every record.
C2_PassOrder ==
    /\ \A k \in 1..Len(Attempts) :
          /\ Attempts[k].pos \in Positions(cfg)
          /\ Rank(Attempts[k].pos) = k
          /\ Attempts[k].zone_id = cfg.zones[Attempts[k].pos[1]].zone_id
    /\ \A i \in 1..Len(passLog) - 1 :
          IF passLog[i].method = "GET"
          THEN /\ passLog[i + 1].method = "PATCH"
               /\ passLog[i + 1].pos = passLog[i].pos
          ELSE /\ passLog[i + 1].method = "GET"
               /\ lastPatch[passLog[i].pos].done
    /\ pc \in {"sleep", "poll"} =>
          /\ Len(Attempts) = Cardinality(Positions(cfg))
          /\ Len(passLog) = 2 * Len(Attempts)

\* C2 witness: a pass after a detected change has reached the second record
\* of the second zone.
C2_Witness ==
    /\ slept >= 1
    /\ pc = "patch"
    /\ zi = 2 /\ ri = 2
    /\ Len(Attempts) = 4

\* C3: a failed update_record ends the process with an error at once: the
\* failing step is the last one, nothing is sent or slept after it, and the
\* other records keep the PATCH they last received.
C3_FailFast ==
    [][/\ pc # "exited"
       /\ (\/ pc = "lookup" /\ ListFails(body', CurRecord.name)
           \/ pc = "patch" /\ patchResp'.kind = "neterr")
             => /\ pc' = "exited"
                /\ exit' = "failure"
                /\ exitErr'.kind \in {"Network", "Provider", "NotFound"}
                /\ slept' = slept
                /\ \A p \in Positions(cfg) \ {<<zi, ri>>} :
                      lastPatch'[p] = lastPatch[p]]_vars

\* C3 witness: the update of the second record of the second zone failed
\* in its PATCH; the three records before it keep their update.
C3_Witness ==
    /\ pc = "exited"
    /\ exitAt = "patch"
    /\ zi = 2 /\ ri = 2
    /\ \A p \in {<<1, 1>>, <<1, 2>>, <<2, 1>>} :
          lastPatch[p].done /\ lastPatch[p].content = ip
    /\ ~lastPatch[<<2, 2>>].done

\* C4: the startup resolution and every poll that returns another IP start
\* a pass with that IP; when the pass is over (the loop sleeps), every
\* configured record has received exactly one PATCH in it, carrying that IP.
C4_FullPass ==
    /\ [](pc \in {"sleep", "poll"} =>
            \A p \in Positions(cfg) :
                /\ Cardinality(PatchesOf(p)) = 1
                /\ \A i \in PatchesOf(p) : passLog[i].content = ip
                /\ ip = latest)
    /\ [][(\/ pc = "startup" /\ resolved'.ok
           \/ pc = "poll" /\ resolved'.ok /\ resolved'.val # ip)
             => /\ pc' = "for_zone"
                /\ zi' = 1
                /\ ip' = resolved'.val
                /\ passLog' = <<>>]_vars

\* C4 witness: the pass that followed a detected change is over.
C4_Witness ==
    /\ pc = "sleep"
    /\ slept = 1
    /\ Cardinality(Positions(cfg)) = 4
    /\ nreq = 16
    /\ \A p \in Positions(cfg) : Cardinality(PatchesOf(p)) = 1

\* C5: every PATCH sent carries the value of the most recent successful
\* get_current_ip call.
C5_NoStaleIp ==
    \A i \in 1..Len(passLog) :
        passLog[i].method = "PATCH" => passLog[i].content = latest

\* C5 witness: in the pass after a change, one record has been sent the new
\* IP while another still holds the old one.
C5_Witness ==
    /\ slept >= 1
    /\ \E i \in 1..Len(passLog) :
          passLog[i].method = "PATCH" /\ passLog[i].content = latest
    /\ \E p \in Positions(cfg) :
          lastPatch[p].done /\ lastPatch[p].content # latest

\* C6, as stated: after its initial assignment the stored IP changes to a
\* new value only once every configured record has been successfully
\* updated to that value.
C6_StoredAfterPass ==
    [][(ip # NoIp /\ ip' # ip)
          => \A p \in Positions(cfg) :
                lastPatch'[p].done /\ lastPatch'[p].content = ip']_vars

\* C6, amended: after its initial assignment the stored IP changes only at
\* a poll in Waiting that returned another value, hence only once every
\* configured record has been successfully updated to the previous stored
\* IP; it takes the polled value at once, before any record has been
\* updated to it, and the pass for the new value then begins.
C6_StoredBeforePass ==
    [][(ip # NoIp /\ ip' # ip)
          => /\ pc = "poll"
             /\ AllPatchedTo(ip)
             /\ resolved'.ok
             /\ ip' = resolved'.val
             /\ lastPatch' = lastPatch
             /\ passLog' = <<>>
             /\ pc' = "for_zone"]_vars

\* C6 witness: a poll has just stored a new IP; every record still holds
\* the previous one and the pass for the new one has not sent anything.
C6_Witness ==
    /\ pc = "for_zone"
    /\ zi = 1
    /\ slept >= 1
    /\ passLog = <<>>
    /\ Positions(cfg) # {}
    /\ \A p \in Positions(cfg) : lastPatch[p].done /\ lastPatch[p].content # ip

\* C7: a record-list envelope with success=false makes the lookup fail with
\* an error carrying the envelope's error list, whatever its result list
\* holds; the process ends there, the list request being the last request
\* sent: no PATCH follows for this record or any later one.
C7_EnvelopeFailure ==
    [][/\ (pc = "exited" /\ exitErr.kind = "Provider") => FALSE
       /\ (pc = "lookup" /\ body'.kind = "json" /\ ~body'.success)
             => /\ pc' = "exited"
                /\ exit' = "failure"
                /\ exitErr' = [kind |-> "Provider", detail |-> body'.errors]
                /\ Len(passLog') = Len(passLog) + 1
                /\ passLog'[Len(passLog')].method = "GET"
                /\ lastPatch' = lastPatch]_vars

\* C7 witness: the envelope said success=false with errors ["bad auth"]
\* while its result list held the requested name; the process has ended.
C7_Witness ==
    /\ pc = "exited"
    /\ exitAt = "lookup"
    /\ ~body.success
    /\ exitErr = [kind |-> "Provider", detail |-> <<"bad auth">>]
    /\ \E i \in 1..Len(body.result) : body.result[i].name = CurRecord.name

\* C8: on a success envelope the lookup returns the id of the first entry,
\* in the order of the response, whose name is exactly the requested name,
\* and fails with NotFound exactly when no entry has that name.
C8_LookupCorrect ==
    /\ pc = "patch" =>
          /\ body.kind = "json" /\ body.success
          /\ \E i \in 1..Len(body.result) :
                /\ body.result[i].name = CurRecord.name
                /\ body.result[i].id = record_id
                /\ \A j \in 1..i - 1 : body.result[j].name # CurRecord.name
    /\ (pc = "exited" /\ exitAt = "lookup" /\ exit = "failure") =>
          /\ exitErr.kind = "NotFound" <=>
                /\ body.kind = "json" /\ body.success
                /\ \A i \in 1..Len(body.result) :
                      body.result[i].name # CurRecord.name
          /\ exitErr.kind = "NotFound" => exitErr.detail = <<CurRecord.name>>

\* C8 witness: the response lists the name in another case first, then the
\* exact name; the lookup returned the id of the second entry.
C8_Witness ==
    /\ pc = "patch"
    /\ Len(body.result) = 2
    /\ body.result[1].name # CurRecord.name
    /\ Lower(body.result[1].name) = Lower(CurRecord.name)
    /\ body.result[2].name = CurRecord.name
    /\ body.result[1].id # body.result[2].id
    /\ record_id = body.result[2].id

\* C9: when a record update fails, the error-level entry written before the
\* exit reports the failing record's configured name as the record and its
\* zone's configured name as the zone.
C9_ErrorAttribution ==
    (pc = "exited" /\ exit = "failure" /\ exitAt \in {"lookup", "patch"}) =>
        /\ errlog # <<>>
        /\ errlog[Len(errlog)].record = CurRecord.name
        /\ errlog[Len(errlog)].zone = CurZone.name

\* C10: whenever the process ends because of an IP resolution failure (at
\* startup or in Waiting) or of a failure inside a record update (list
\* transport, unparseable list body, envelope, not found, PATCH transport),
\* an error-level entry carrying the error has been written.
C10_FatalErrorLogged ==
    (pc = "exited" /\ exitAt \in {"startup", "poll", "lookup", "patch"}) =>
        /\ errlog # <<>>
        /\ exit = "failure" => errlog[Len(errlog)].error = exitErr

\* C11: a failed IP resolution ends the process with that error at once, at
\* startup before any provider request and in Waiting without another
\* sleep, IP request or provider request; the stored IP is left as it was.
C11_IpFailureFatal ==
    /\ [][/\ (pc = "exited" /\ exitAt \in {"startup", "poll"}) => FALSE
          /\ (pc \in {"startup", "poll"} /\ nip' # nip /\ ~resolved'.ok)
                => /\ pc' = "exited"
                   /\ exit' = "failure"
                   /\ exitErr' = resolved'.err
                   /\ ip' = ip
                   /\ nip' = nip + 1
                   /\ nreq' = nreq
                   /\ slept' = slept
                   /\ lastPatch' = lastPatch]_vars
    /\ []((pc = "exited" /\ exitAt = "startup") => (nreq = 0 /\ ip = NoIp))

\* C11 witness: the second poll failed; the process has ended with the IP
\* of the last pass still stored.
C11_Witness ==
    /\ pc = "exited"
    /\ exitAt = "poll"
    /\ slept = 2
    /\ nip = 3
    /\ ~resolved.ok
    /\ Positions(cfg) # {}
    /\ AllPatchedTo(ip)

\* C12: with zero zones the process ends with a configuration error before
\* any IP resolution or other HTTP request, and never updates or waits.
C12_NoZonesFatal ==
    Len(cfg.zones) = 0 =>
        /\ pc \in {"check_zones", "exited"}
        /\ nip = 0 /\ nreq = 0 /\ slept = 0
        /\ lastEvent.kind = "none"
        /\ pc = "exited" => (exit = "failure" /\ exitErr.kind = "Config")

\* C12 witness: the configuration has no zone and the process has ended.
C12_Witness ==
    /\ Len(cfg.zones) = 0
    /\ pc = "exited"
    /\ exitAt = "check_zones"
    /\ exitErr.detail = <<"No zones specified">>

\* C13: a configuration in which no zone has a record ends the process with
\* an error at startup; the reconciliation loop is never entered.
C13_NoRecordsFatal ==
    Positions(cfg) = {} =>
        pc \notin {"for_zone", "for_record", "lookup", "patch", "sleep", "poll"}

\* C14: the process never ends with success; it ends only in a step in
\* which the configuration check, an IP resolution or a record update
\* failed; while it has not ended it can always take a next step (up to the
\* MaxPolls sleeps explored), so a run without failure goes on for ever.
C14_RunsForever ==
    /\ [](exit # "success")
    /\ [](pc = "exited" <=> exit \in {"failure", "panic"})
    /\ []((pc # "exited" /\ ~(pc = "sleep" /\ slept >= MaxPolls))
            => ENABLED Next)
    /\ [][(pc # "exited" /\ pc' = "exited")
            => \/ pc = "check_zones" /\ Len(cfg.zones) = 0
               \/ pc \in {"startup", "poll"} /\ ~resolved'.ok
               \/ pc = "lookup" /\ body'.kind = "badjson"
               \/ pc = "lookup" /\ ListFails(body', CurRecord.name)
               \/ pc = "patch" /\ patchResp'.kind = "neterr"]_vars

\* C14 witness: after the startup pass, a changed poll, a second pass and a
\* second sleep the process is still running, about to poll again.
C14_Witness ==
    /\ pc = "poll"
    /\ slept = 2
    /\ exit = "running"
    /\ errlog = <<>>
    /\ Cardinality(Positions(cfg)) = 4
    /\ nreq = 16

\* C15: a PATCH that completes in transport makes update_record succeed,
\* whatever the status and the envelope of its response: the record is
\* logged as updated and the pass goes on to the next record; only a
\* transport failure of the PATCH makes the update fail.
C15_PatchNotEnvelopeChecked ==
    [][pc = "patch"
         => IF patchResp'.kind = "http"
            THEN /\ pc' = "for_record"
                 /\ ri' = ri + 1
                 /\ exit' = "running"
                 /\ errlog' = errlog
                 /\ info' = [msg |-> "updated", name |-> CurRecord.name,
                             ip |-> ip]
                 /\ lastPatch'[<<zi, ri>>].done
            ELSE /\ pc' = "exited"
                 /\ exit' = "failure"
                 /\ exitErr'.kind = "Network"
                 /\ info' = info]_vars

\* C15 witness: the PATCH response was a 403 whose envelope says
\* success=false; the record has been logged as updated and the loop goes on.
C15_Witness ==
    /\ pc = "for_record"
    /\ patchResp.kind = "http"
    /\ patchResp.status = 403
    /\ ~patchResp.success
    /\ info.msg = "updated"
    /\ exit = "running"

AllWhitespace(s) == \A k \in 1..Len(s) : s[k] \in Whitespace

\* t is s without its leading and trailing whitespace, nothing else changed.
IsTrimOf(t, s) ==
    /\ t # <<>> => (t[1] \notin Whitespace /\ t[Len(t)] \notin Whitespace)
    /\ \E i \in 1..Len(s) + 1 :
          \E j \in i - 1..Len(s) :
              /\ Len(t) = j - i + 1
              /\ \A k \in 1..Len(t) : t[k] = s[i + k - 1]
              /\ \A k \in 1..i - 1 : s[k] \in Whitespace
              /\ \A k \in j + 1..Len(s) : s[k] \in Whitespace

\* C16: for every body read as text get_current_ip returns the body without
\* its leading and trailing whitespace and otherwise unchanged; a polled
\* body that is the stored IP wrapped in whitespace is seen as unchanged.
C16_TrimBehaviour ==
    /\ [](echo.kind = "text" =>
            (resolved.ok /\ IsTrimOf(resolved.val, echo.body)))
    /\ [][(pc = "poll" /\ echo'.kind = "text" /\ IsTrimOf(ip, echo'.body))
            => (pc' = "sleep" /\ ip' = ip /\ nreq' = nreq)]_vars

\* C16 witness: the poll read "1\n" while "1" was stored; the loop has seen
\* no change.
C16_Witness ==
    /\ pc = "sleep"
    /\ slept >= 1
    /\ echo.body = <<"1", "\n">>
    /\ ip = <<"1">>
    /\ info.msg = "unchanged"

\* C17: every PATCH comes right after exactly one record-list GET for the
\* same zone and record, sent by the same update_record call, and the id in
\* its URL is the id of the first entry with the record's name in the
\* response to that GET; no id from an earlier lookup is used.
C17_FreshLookup ==
    /\ [](\A i \in 1..Len(passLog) :
            passLog[i].method = "PATCH" =>
                /\ i > 1
                /\ passLog[i - 1].method = "GET"
                /\ passLog[i - 1].zone_id = passLog[i].zone_id
                /\ passLog[i - 1].pos = passLog[i].pos
                /\ i > 2 => passLog[i - 2].method = "PATCH")
    /\ [][pc = "patch"
            => /\ lastEvent.kind = "listget"
               /\ body.kind = "json"
               /\ Len(passLog') = Len(passLog) + 1
               /\ passLog'[Len(passLog')].method = "PATCH"
               /\ passLog'[Len(passLog')].zone_id = CurZone.zone_id
               /\ \E k \in 1..Len(body.result) :
                     /\ body.result[k].name = CurRecord.name
                     /\ \A j \in 1..k - 1 :
                           body.result[j].name # CurRecord.name
                     /\ passLog'[Len(passLog')].record_id =
                            body.result[k].id]_vars

\* C17 witness: in a pass after a detected change, the record named "a" of
\* the first zone was patched under id i1 and the record named "a" of the
\* second zone under id i2, each id taken from its own lookup.
C17_Witness ==
    /\ slept >= 1
    /\ Len(passLog) = 8
    /\ passLog[2].method = "PATCH" /\ passLog[2].record_id = "i1"
    /\ passLog[7].method = "GET"
    /\ passLog[8].method = "PATCH" /\ passLog[8].record_id = "i2"
    /\ cfg.zones[1].records[1].name = cfg.zones[2].records[2].name

\* The pass in progress has sent every configured record its PATCH, and
\* each has completed.
PassComplete ==
    \A p \in Positions(cfg) : Cardinality(PatchesOf(p)) = 1 /\ lastPatch[p].done

\* C18: every IP resolution but the first comes right after one sleep of
\* five minutes, with no provider request in between, and only when the
\* pass is complete; the first comes before any sleep or provider request;
\* the first request of a later pass is sent only when every record's
\* previous update has completed.
C18_PollCadence ==
    /\ [](lastEvent.kind = "sleep" => pc = "poll")
    /\ [][/\ (nip' # nip /\ nip > 0)
                => /\ pc = "poll"
                   /\ nip' = nip + 1
                   /\ lastEvent = [kind |-> "sleep", secs |-> 5 * 60]
                   /\ PassComplete
          /\ (nip' # nip /\ nip = 0)
                => (pc = "startup" /\ slept = 0 /\ nreq = 0)
          /\ slept' # slept
                => (slept' = slept + 1 /\ PassComplete /\ nreq' = nreq)
          /\ (nreq' # nreq /\ passLog = <<>> /\ slept > 0)
                => \A p \in Positions(cfg) :
                      /\ lastPatch[p].done
                      /\ lastPatch[p].content # ip
                      /\ \A q \in Positions(cfg) :
                            lastPatch[q].content = lastPatch[p].content]_vars

\* C18 witness: the second poll, the third IP resolution, came right after
\* the second sleep and found a change.
C18_Witness ==
    /\ pc = "for_zone"
    /\ nip = 3
    /\ slept = 2
    /\ lastEvent.kind = "ipget"
    /\ passLog = <<>>
    /\ Positions(cfg) # {}

\* C19: whenever the loop is in Waiting, every configured record's most
\* recent PATCH completed in transport and carried the stored IP.
C19_WaitingInvariant ==
    pc \in {"sleep", "poll"} =>
        \A p \in Positions(cfg) :
            lastPatch[p].done /\ lastPatch[p].content = ip

\* C19 witness: after the startup pass a poll compared its result with the
\* stored IP, which every record holds, and found it unchanged.
C19_Witness ==
    /\ pc = "sleep"
    /\ nip = 2
    /\ info.msg = "unchanged"
    /\ Cardinality(Positions(cfg)) = 4
    /\ \A p \in Positions(cfg) : lastPatch[p] = [content |-> ip, done |-> TRUE]

\* C20: get_current_ip never fails on a body read as text; an empty or
\* whitespace-only body gives the empty string, which at startup, or when
\* it differs from the stored IP, is stored and then sent as the content of
\* the PATCH of every record.
C20_NoIpValidation ==
    /\ [](echo.kind = "text" => resolved.ok)
    /\ []((echo.kind = "text" /\ AllWhitespace(echo.body))
            => resolved.val = <<>>)
    /\ []((pc \in {"sleep", "poll"} /\ ip = <<>>) =>
            \A p \in Positions(cfg) :
                \E i \in PatchesOf(p) : passLog[i].content = <<>>)
    /\ [][/\ (/\ pc \in {"startup", "poll"}
              /\ echo'.kind = "text"
              /\ AllWhitespace(echo'.body)
              /\ (pc = "startup" \/ ip # <<>>))
                => (ip' = <<>> /\ pc' = "for_zone" /\ exit' = "running")
          /\ (pc = "patch" /\ ip = <<>>)
                => /\ passLog'[Len(passLog')].method = "PATCH"
                   /\ passLog'[Len(passLog')].content = <<>>]_vars

\* C20 witness: a poll read a whitespace-only body while an address was
\* stored; the empty string has been stored and sent to all four records.
C20_Witness ==
    /\ pc = "sleep"
    /\ slept >= 1
    /\ ip = <<>>
    /\ Cardinality(Positions(cfg)) = 4
    /\ nreq = 16
    /\ Len(passLog) = 8
    /\ \A p \in Positions(cfg) :
          lastPatch[p] = [content |-> <<>>, done |-> TRUE]

====
